---- MODULE Spec2Model ----
(***************************************************************************)
(* Creative Analysis & Risk-Scoring Engine (src/src/services/aiService.ts) *)
(*                                                                         *)
(* Numbers are JavaScript numbers in the source.  Every quantity modelled  *)
(* here is an integer or a ratio of two integers, so Math.round(a / b) is  *)
(* computed exactly as floor(a / b + 1/2).                                 *)
(***************************************************************************)
EXTENDS Integers, Sequences, FiniteSets, TLC

\* ------------------------------------------------------------------ bounds
\* longest riskFactors list handed to calculateRiskScore / sent by the remote
MaxRiskFactors == 3
\* most pixels in a decoded image buffer
MaxPixels == 2
\* most placement scenarios in a remote placement payload
MaxPlacements == 3
\* longest riskFactors list in a remote compliance payload
MaxRemoteFactors == 2
\* most pixels of a buffer handed to the pixel scan on its own
MaxBufferLen == 6

\* ------------------------------------------------------- numeric helpers
Min(a, b) == IF a < b THEN a ELSE b
Max(a, b) == IF a > b THEN a ELSE b
Abs(a) == IF a < 0 THEN -a ELSE a

\* Math.round(num / den) for den > 0: nearest integer, halves towards +infinity
Round(num, den) == (2 * num + den) \div (2 * den)

\* a falsy value that is neither null nor undefined (0, "", false): reading a
\* property of it yields undefined and does not throw
Falsy == [falsy |-> TRUE]

\* the number NaN, as an integer below every threshold a score is tested
\* against: each test score >= t is false on it, as it is on NaN, and no
\* clamped score equals it
NaN == -1

\* ------------------------------------------------------------ Risk Scorer
PenaltyPerFactor == 5

\* the band test written with > where the code has >=
scorerLabelStrict(s) ==
  IF s > 90 THEN "Excellent"
  ELSE IF s > 75 THEN "Good"
  ELSE IF s > 60 THEN "Fair"
  ELSE "Needs Work"

scorerLabel(s) ==
  IF s >= 90 THEN "Excellent"
  ELSE IF s >= 75 THEN "Good"
  ELSE IF s >= 60 THEN "Fair"
  ELSE "Needs Work"

scorerRecommendation(s) ==
  IF s >= 90 THEN "Your creative is ready for submission with high confidence."
  ELSE IF s >= 75 THEN "Your creative is likely to pass review. Consider applying remaining suggestions."
  ELSE IF s >= 60 THEN "Review and apply critical suggestions before submission."
  ELSE "Significant improvements needed. Apply all suggestions and re-validate."

\* the penalty counted for at most two risk factors
calculateRiskScoreCapped(metrics, riskFactors) ==
  LET avgScore == Round(metrics.compliance + metrics.attention
                        + metrics.readability + metrics.brandConsistency, 4)
      finalScore == Max(0, Min(100, avgScore - Min(2, Len(riskFactors)) * 5))
  IN [score |-> finalScore,
      label |-> scorerLabel(finalScore),
      recommendation |-> scorerRecommendation(finalScore),
      riskFactors |-> riskFactors]

\* the average truncated (Math.floor) where the code rounds
calculateRiskScoreFloor(metrics, riskFactors) ==
  LET avgScore == (metrics.compliance + metrics.attention
                   + metrics.readability + metrics.brandConsistency) \div 4
      finalScore == Max(0, Min(100, avgScore - Len(riskFactors) * 5))
  IN [score |-> finalScore,
      label |-> scorerLabel(finalScore),
      recommendation |-> scorerRecommendation(finalScore),
      riskFactors |-> riskFactors]

calculateRiskScore(metrics, riskFactors) ==
  LET avgScore == IF metrics = Falsy THEN NaN
                  ELSE Round(metrics.compliance + metrics.attention
                             + metrics.readability + metrics.brandConsistency, 4)
      finalScore == IF avgScore = NaN THEN NaN
                    ELSE Max(0, Min(100, avgScore - Len(riskFactors) * PenaltyPerFactor))
  IN [score |-> finalScore,
      label |-> scorerLabel(finalScore),
      recommendation |-> scorerRecommendation(finalScore),
      riskFactors |-> riskFactors]

\* -------------------------------------------------- Pixel Feature Extractor
\* the fixed profile substituted on a decode failure
DefaultProfile ==
  [hasText |-> TRUE, textDensity |-> [num |-> 65, den |-> 1], colorCount |-> 120,
   brightness |-> 128, contrast |-> 45, estimatedReadability |-> 75]

\* pixels <<r, g, b>> the decoder may yield: a dark one, a light one, a
\* mid-tone one and a second dark one in the same quantised bucket as the first
Palette == { <<0, 0, 0>>, <<255, 255, 255>>, <<250, 120, 20>>, <<10, 20, 30>> }

\* ImageData buffers: between 1 and MaxPixels pixels (a 0-pixel canvas makes
\* getImageData throw, see ImgOnLoadThrows)
PixelBuffers == UNION { [1..n -> Palette] : n \in 1..MaxPixels }

RECURSIVE channelTotal(_)
channelTotal(data) ==
  IF data = << >> THEN 0
  ELSE LET px == Head(data) IN px[1] + px[2] + px[3] + channelTotal(Tail(data))

\* brightness = (r + g + b) / 3 < 85
isDark(px) == px[1] + px[2] + px[3] < 3 * 85
\* brightness = (r + g + b) / 3 > 170
isLight(px) == px[1] + px[2] + px[3] > 3 * 170

quantised(px) == << px[1] \div 50, px[2] \div 50, px[3] \div 50 >>

\* readability derived from the already rounded contrast
extractProfileTwiceRounded(data) ==
  LET n == Len(data)
      colorCount == Cardinality({ quantised(data[i]) : i \in 1..n })
      darkPixels == Cardinality({ i \in 1..n : isDark(data[i]) })
      lightPixels == Cardinality({ i \in 1..n : isLight(data[i]) })
      contrast == Round(Abs(darkPixels - lightPixels) * 100, n)
  IN [hasText |-> colorCount > 10,
      textDensity |-> IF colorCount * 100 > 100 * 256
                        THEN [num |-> 100, den |-> 1]
                        ELSE [num |-> colorCount * 100, den |-> 256],
      colorCount |-> Min(256, colorCount),
      brightness |-> Round(channelTotal(data), 3 * n),
      contrast |-> contrast,
      estimatedReadability |-> Min(100, Round(3 * contrast, 2))]

\* hasText tested with >= 10
extractProfileHasTextGe(data) ==
  LET n == Len(data)
      colorCount == Cardinality({ quantised(data[i]) : i \in 1..n })
      darkPixels == Cardinality({ i \in 1..n : isDark(data[i]) })
      lightPixels == Cardinality({ i \in 1..n : isLight(data[i]) })
      diff == Abs(darkPixels - lightPixels)
  IN [hasText |-> colorCount >= 10,
      textDensity |-> IF colorCount * 100 > 100 * 256
                        THEN [num |-> 100, den |-> 1]
                        ELSE [num |-> colorCount * 100, den |-> 256],
      colorCount |-> Min(256, colorCount),
      brightness |-> Round(channelTotal(data), 3 * n),
      contrast |-> Round(diff * 100, n),
      estimatedReadability |-> Min(100, Round(diff * 150, n))]

\* the body of img.onload: one pass over the pixel buffer
extractProfile(data) ==
  LET n == Len(data)
      colorCount == Cardinality({ quantised(data[i]) : i \in 1..n })
      darkPixels == Cardinality({ i \in 1..n : isDark(data[i]) })
      lightPixels == Cardinality({ i \in 1..n : isLight(data[i]) })
      diff == Abs(darkPixels - lightPixels)
  IN [hasText |-> colorCount > 10,
      textDensity |-> IF colorCount * 100 > 100 * 256
                        THEN [num |-> 100, den |-> 1]
                        ELSE [num |-> colorCount * 100, den |-> 256],
      colorCount |-> Min(256, colorCount),
      brightness |-> Round(channelTotal(data), 3 * n),
      contrast |-> Round(diff * 100, n),
      estimatedReadability |-> Min(100, Round(diff * 150, n))]

\* ----------------------------------------------- fixed local defaults
generateMockHeatmap ==
  [zones |-> << [x |-> 50, y |-> 30, intensity |-> 95, description |-> "Primary headline - high attention"],
                [x |-> 50, y |-> 60, intensity |-> 85, description |-> "Call-to-action button"],
                [x |-> 20, y |-> 15, intensity |-> 75, description |-> "Brand logo"],
                [x |-> 70, y |-> 50, intensity |-> 70, description |-> "Product image"],
                [x |-> 50, y |-> 85, intensity |-> 40, description |-> "Fine print disclaimer"] >>,
   focusAreas |-> << "Headline", "CTA Button", "Product Image" >>]

generateMockPlacements ==
  [placements |->
     << [context |-> "Shelf Edge Display",
         description |-> "Creative appears on shelf edge at eye level with good visibility from 6-8 feet away",
         recommendation |-> "Ensure text is readable from distance; increase font size by 15% for optimal visibility"],
        [context |-> "Endcap Placement",
         description |-> "High-traffic area with multiple viewing angles; creative competes with surrounding products",
         recommendation |-> "Increase color contrast and make CTA more prominent to stand out in busy environment"],
        [context |-> "Digital Display",
         description |-> "Creative displayed on digital screen with bright backlighting and potential glare",
         recommendation |-> "Verify color accuracy on backlit displays; test with various lighting conditions"] >>]

\* ------------------------------------------- Heuristic Metric Synthesizer
\* The details strings are kept as the phrase the code selects; the contrast
\* ratio printed inside the text-readability details is left out.
\* the call-to-action check given the colour-contrast threshold (>= 40)
mockComplianceChecksCta40(readabilityScore, contrast) ==
  << [item |-> "Brand logo placement", status |-> "pass",
      details |-> "Logo is properly positioned and meets minimum size requirements"],
     [item |-> "Text readability",
      status |-> IF readabilityScore >= 70 THEN "pass" ELSE "warning",
      details |-> IF readabilityScore >= 70 THEN "(exceeds WCAG AA standards)"
                  ELSE "(below recommended standards)"],
     [item |-> "Color contrast",
      status |-> IF contrast >= 40 THEN "pass" ELSE "warning",
      details |-> IF contrast >= 40 THEN "All text elements meet WCAG AA accessibility standards"
                  ELSE "Improve color contrast for better accessibility"],
     [item |-> "Dimension requirements", status |-> "pass",
      details |-> "Creative dimensions match placement specifications"],
     [item |-> "Legal disclaimers", status |-> "warning",
      details |-> "Add fine print disclaimer for complete regulatory compliance"],
     [item |-> "Call-to-action clarity",
      status |-> IF contrast >= 40 THEN "pass" ELSE "warning",
      details |-> IF contrast >= 40 THEN "CTA button is clearly visible and actionable"
                  ELSE "Increase CTA button contrast for better visibility"] >>

mockComplianceChecks(readabilityScore, contrast) ==
  << [item |-> "Brand logo placement", status |-> "pass",
      details |-> "Logo is properly positioned and meets minimum size requirements"],
     [item |-> "Text readability",
      status |-> IF readabilityScore >= 70 THEN "pass" ELSE "warning",
      details |-> IF readabilityScore >= 70 THEN "(exceeds WCAG AA standards)"
                  ELSE "(below recommended standards)"],
     [item |-> "Color contrast",
      status |-> IF contrast >= 40 THEN "pass" ELSE "warning",
      details |-> IF contrast >= 40 THEN "All text elements meet WCAG AA accessibility standards"
                  ELSE "Improve color contrast for better accessibility"],
     [item |-> "Dimension requirements", status |-> "pass",
      details |-> "Creative dimensions match placement specifications"],
     [item |-> "Legal disclaimers", status |-> "warning",
      details |-> "Add fine print disclaimer for complete regulatory compliance"],
     [item |-> "Call-to-action clarity",
      status |-> IF contrast >= 35 THEN "pass" ELSE "warning",
      details |-> IF contrast >= 35 THEN "CTA button is clearly visible and actionable"
                  ELSE "Increase CTA button contrast for better visibility"] >>

\* the contrast thresholds tested with <= where the code has <
mockSuggestionsLe(contrast, colorCount) ==
  << [id |-> "ai-1", type |-> "ai", category |-> "Compliance",
      severity |-> IF contrast <= 40 THEN "critical"
                   ELSE IF contrast <= 50 THEN "warning" ELSE "info",
      title |-> IF contrast <= 40 THEN "Improve Color Contrast"
                ELSE IF contrast <= 50 THEN "Enhance Color Contrast"
                ELSE "Maintain Color Contrast"],
     [id |-> "ai-2", type |-> "ai", category |-> "Design",
      severity |-> IF colorCount > 180 THEN "warning" ELSE "info",
      title |-> IF colorCount < 80 THEN "Add Visual Variety"
                ELSE IF colorCount > 180 THEN "Simplify Color Palette"
                ELSE "Color Palette Optimization"],
     [id |-> "ai-3", type |-> "ai", category |-> "Optimization",
      severity |-> "info", title |-> "Add Legal Disclaimer"],
     [id |-> "ai-4", type |-> "ai", category |-> "Optimization",
      severity |-> "info", title |-> "Test in Retail Environment"] >>

\* a fifth entry pushed for busy palettes and the cut moved to 5
mockSuggestionsFive(contrast, colorCount) ==
  LET fixed == << [id |-> "ai-3", type |-> "ai", category |-> "Optimization",
                   severity |-> "info", title |-> "Add Legal Disclaimer"],
                  [id |-> "ai-4", type |-> "ai", category |-> "Optimization",
                   severity |-> "info", title |-> "Test in Retail Environment"] >>
      first == << [id |-> "ai-1", type |-> "ai", category |-> "Compliance",
                   severity |-> IF contrast < 40 THEN "critical"
                                ELSE IF contrast < 50 THEN "warning" ELSE "info",
                   title |-> IF contrast < 40 THEN "Improve Color Contrast"
                             ELSE IF contrast < 50 THEN "Enhance Color Contrast"
                             ELSE "Maintain Color Contrast"] >>
      variety == IF colorCount < 80
                   THEN << [id |-> "ai-2", type |-> "ai", category |-> "Design",
                            severity |-> "info", title |-> "Add Visual Variety"] >>
                   ELSE << [id |-> "ai-2", type |-> "ai", category |-> "Design",
                            severity |-> "info", title |-> "Color Palette Optimization"] >>
      busy == IF colorCount > 180
                THEN << [id |-> "ai-2", type |-> "ai", category |-> "Design",
                         severity |-> "warning", title |-> "Simplify Color Palette"] >>
                ELSE << >>
      all == first \o variety \o busy \o fixed
  IN SubSeq(all, 1, Min(5, Len(all)))

mockSuggestions(contrast, colorCount) ==
  LET first == IF contrast < 40
                 THEN [id |-> "ai-1", type |-> "ai", category |-> "Compliance",
                       severity |-> "critical", title |-> "Improve Color Contrast"]
               ELSE IF contrast < 50
                 THEN [id |-> "ai-1", type |-> "ai", category |-> "Compliance",
                       severity |-> "warning", title |-> "Enhance Color Contrast"]
               ELSE [id |-> "ai-1", type |-> "ai", category |-> "Compliance",
                     severity |-> "info", title |-> "Maintain Color Contrast"]
      second == IF colorCount < 80
                  THEN [id |-> "ai-2", type |-> "ai", category |-> "Design",
                        severity |-> "info", title |-> "Add Visual Variety"]
                ELSE IF colorCount > 180
                  THEN [id |-> "ai-2", type |-> "ai", category |-> "Design",
                        severity |-> "warning", title |-> "Simplify Color Palette"]
                ELSE [id |-> "ai-2", type |-> "ai", category |-> "Design",
                      severity |-> "info", title |-> "Color Palette Optimization"]
      all == << first, second,
                [id |-> "ai-3", type |-> "ai", category |-> "Optimization",
                 severity |-> "info", title |-> "Add Legal Disclaimer"],
                [id |-> "ai-4", type |-> "ai", category |-> "Optimization",
                 severity |-> "info", title |-> "Test in Retail Environment"] >>
  IN SubSeq(all, 1, Min(4, Len(all)))

mockLabel(s) ==
  IF s >= 90 THEN "Excellent"
  ELSE IF s >= 75 THEN "Good"
  ELSE IF s >= 60 THEN "Fair"
  ELSE "Needs Work"

mockRecommendation(s) ==
  IF s >= 90 THEN "Your creative demonstrates excellent compliance and design quality. Ready for immediate submission."
  ELSE IF s >= 75 THEN "Your creative is likely to pass review. Consider applying remaining suggestions for optimization."
  ELSE IF s >= 60 THEN "Review and apply critical suggestions before submission to improve compliance."
  ELSE "Significant improvements needed. Apply all critical suggestions and re-validate before submission."

\* the risk factor reported for contrast <= 40
mockRiskAnalysisLe(metrics, contrast) ==
  LET riskScore == Round(metrics.compliance + metrics.attention
                         + metrics.readability + metrics.brandConsistency, 4)
  IN [score |-> riskScore,
      label |-> mockLabel(riskScore),
      recommendation |-> mockRecommendation(riskScore),
      riskFactors |-> IF contrast <= 40 THEN << "Low contrast" >> ELSE << >>]

\* riskAnalysis of the synthesizer: the rounded mean of its four metrics
mockRiskAnalysis(metrics, contrast) ==
  LET riskScore == Round(metrics.compliance + metrics.attention
                         + metrics.readability + metrics.brandConsistency, 4)
  IN [score |-> riskScore,
      label |-> mockLabel(riskScore),
      recommendation |-> mockRecommendation(riskScore),
      riskFactors |-> IF contrast < 40 THEN << "Low contrast" >> ELSE << >>]

generateMockAnalysis(imageAnalysis) ==
  LET readability == imageAnalysis.estimatedReadability
      contrast == imageAnalysis.contrast
      colorCount == imageAnalysis.colorCount
      metrics == [compliance |-> Min(100, Round(3 * contrast + 60, 2)),
                  attention |-> Min(100, Round(70 * colorCount + 40 * 256, 256)),
                  readability |-> readability,
                  brandConsistency |-> Min(100, Round(6 * contrast + 200, 5))]
  IN [complianceChecks |-> mockComplianceChecks(readability, contrast),
      designMetrics |-> metrics,
      heatmapData |-> generateMockHeatmap,
      riskAnalysis |-> mockRiskAnalysis(metrics, contrast),
      suggestions |-> mockSuggestions(contrast, colorCount),
      placementSimulations |-> generateMockPlacements.placements]

\* --------------------------------------------------- remote service payloads
\* a property of a parsed JSON object: missing (undefined) or holding a value
Absent == [absent |-> TRUE]
Some(v) == [some |-> v]
\* the JSON value null
Null == [null |-> TRUE]
\* a local that has not been assigned yet
Unset == [unset |-> TRUE]

\* values the remote service may send for a design metric: the service is not
\* constrained to 0..100
RemoteMetricValues == { 3, 110 }

\* a payload whose four metrics are within 0..100
InRangeMetrics ==
  [compliance |-> 92, attention |-> 85, readability |-> 88, brandConsistency |-> 90]

RemoteDesignMetrics ==
  [compliance : RemoteMetricValues, attention : RemoteMetricValues,
   readability : RemoteMetricValues, brandConsistency : RemoteMetricValues]
    \cup {InRangeMetrics}

\* the literal after || in the designMetrics field of the compiled result
FallbackMetrics ==
  [compliance |-> 75, attention |-> 70, readability |-> 80, brandConsistency |-> 75]

remoteFactors(k) == [i \in 1..k |-> "Remote risk factor"]

RemoteChecks ==
  << [item |-> "Remote check", status |-> "fail", details |-> "Reported by the remote service"] >>

\* one raw suggestion without a category ("" stands for a missing, falsy field)
RemoteSuggestions ==
  << [category |-> "", severity |-> "critical", title |-> "Remote suggestion"] >>

\* what JSON.parse(analysisContent) may yield
ParsedCompliance ==
  [designMetrics : { Some(m) : m \in RemoteDesignMetrics } \cup {Some(Falsy), Absent},
   riskFactors : { Some(remoteFactors(k)) : k \in 0..MaxRemoteFactors } \cup {Absent},
   complianceChecks : {Some(RemoteChecks), Absent},
   suggestions : {Some(RemoteSuggestions), Absent}] \cup {Null}

RemoteHeatmap ==
  [zones |-> << [x |-> 10, y |-> 20, intensity |-> 99, description |-> "Remote zone"] >>,
   focusAreas |-> << "Remote focus" >>]

ParsedHeatmap == {RemoteHeatmap, Null}

remotePlacements(k) ==
  [i \in 1..k |-> [context |-> "Remote context", description |-> "Remote description",
                   recommendation |-> "Remote recommendation"]]

ParsedPlacement ==
  { [placements |-> Some(remotePlacements(k))] : k \in 0..MaxPlacements }
    \cup { [placements |-> Absent], Null }

\* how one fetch can end: the promise rejects, the response is not ok, the
\* body or its content fails to parse, or a JSON value is parsed
FailureKinds == { "rejected", "notOk", "unparsable" }

\* ------------------------------------------------------------ completions
Returned(v) == [kind |-> "return", value |-> v]
\* a thrown or rejected value: an Error object with its message
Error(message) == [error |-> message]
Thrown(e) == [kind |-> "throw", value |-> e]

\* ------------------------------------------------------------- Orchestrator
\* the key test dropped: the remote path is always taken
localOnlyNever(key) == FALSE

\* if (!OPENAI_API_KEY): the local-only path is taken
localOnly(key) == ~key

\* a catch block that logs and rethrows
visionCatchRethrows(error, profile) == Thrown(error)

\* the catch block of analyzeCreativeWithVision
visionCatch(error, profile) == Returned(generateMockAnalysis(profile))

\* a non-success branch that answers with the analysis of the default profile
complianceNotOkDefault(profile) == Returned(generateMockAnalysis(DefaultProfile))

\* the branch for a non-success compliance response
complianceNotOk(profile) == Returned(generateMockAnalysis(profile))

\* heatmapResponse.ok ? JSON.parse(...) : generateMockHeatmap()
heatmapNotOk == generateMockHeatmap
\* placementResponse.ok ? JSON.parse(...) : generateMockPlacements()
placementNotOk == [placements |-> Some(generateMockPlacements.placements)]

compileSuggestions(raw) ==
  IF raw = Absent THEN << >>
  ELSE [idx \in 1..Len(raw.some) |->
          LET s == raw.some[idx]
          IN [id |-> "ai-" \o ToString(idx - 1),
              type |-> "ai",
              category |-> IF s.category = "" THEN "General" ELSE s.category,
              severity |-> IF s.severity = "" THEN "info" ELSE s.severity,
              title |-> s.title]]

\* the tail of the try block, after the three exchanges: risk score, suggestions
\* and the result object.  Reading a property of undefined or null throws.
compileResult(json, heatmap, placement) ==
  IF json.designMetrics = Absent THEN Thrown(Error("TypeError"))
  ELSE IF json.riskFactors = Absent THEN Thrown(Error("TypeError"))
  ELSE IF placement = Null THEN Thrown(Error("TypeError"))
  ELSE Returned(
    [complianceChecks |-> IF json.complianceChecks = Absent THEN << >>
                          ELSE json.complianceChecks.some,
     designMetrics |-> IF json.designMetrics.some = Falsy THEN FallbackMetrics
                       ELSE json.designMetrics.some,
     heatmapData |-> IF heatmap = Null THEN generateMockHeatmap ELSE heatmap,
     riskAnalysis |-> calculateRiskScore(json.designMetrics.some, json.riskFactors.some),
     suggestions |-> compileSuggestions(json.suggestions),
     placementSimulations |-> IF placement.placements = Absent
                                THEN generateMockPlacements.placements
                                ELSE placement.placements.some])

\* the same without the try / catch: the missing context rejects the promise
startImageAnalysisNoCatch(ctxAvailable) ==
  IF ctxAvailable THEN [state |-> "pending", value |-> Unset]
  ELSE [state |-> "rejected", value |-> Error("Canvas context not available")]

\* the synchronous part of analyzeImageCharacteristics: with no 2d context the
\* throw is caught and the default profile is returned, otherwise the promise
\* stays pending until img.onload or img.onerror runs
startImageAnalysis(ctxAvailable) ==
  IF ctxAvailable THEN [state |-> "pending", value |-> Unset]
  ELSE [state |-> "resolved", value |-> DefaultProfile]

\* an onerror handler that rejects instead of resolving the default profile
imageLoadErrorRejects == [state |-> "rejected", value |-> Error("Image load error")]

\* img.onerror
imageLoadError == [state |-> "resolved", value |-> DefaultProfile]

\* reader.onload of analyzeCreative: resolve(result) in the try, reject(error)
\* in the catch
settle(completion) ==
  IF completion.kind = "return"
    THEN [state |-> "resolved", value |-> completion.value]
    ELSE [state |-> "rejected", value |-> completion.value]

\* ------------------------------------------------------------------- state
VARIABLES
  pc,              \* where the analyzeCreative call stands
  reader,          \* the FileReader: reading, load, error
  OPENAI_API_KEY,  \* TRUE iff PUBLIC_OPENAI_API_KEY is configured (truthy)
  decode,          \* what happened to the image: none, noContext, decoding,
                   \* loaded, loadError, handlerThrew
  extractor,       \* the promise returned by analyzeImageCharacteristics
  imageAnalysis,   \* const imageAnalysis of analyzeCreativeWithVision
  analysisJson,    \* const analysisJson
  heatmapData,     \* const heatmapData
  placementData,   \* const placementData
  exchange,        \* how each remote exchange ended ("none": never attempted)
  requests,        \* the fetch calls issued so far, in order
  promise,         \* the promise analyzeCreative returned to its caller
  settleCount,     \* number of resolve / reject calls on that promise
  scoreArgs,       \* arguments of a direct calculateRiskScore call
  scoreRet,        \* its return value
  synthArgs,       \* the profile of a direct generateMockAnalysis call
  synthRet,        \* its return value
  extractArgs,     \* the pixel buffer img.onload scans, taken on its own
  extractRet,      \* the profile it resolves
  store,           \* the state object of useAnalysisStore
  storeCall,       \* the store action invoked last, with its argument
  route,           \* the route the router shows
  upload,          \* the component state of UploadPage
  sessionItem,     \* sessionStorage item 'uploadedCreative'
  simulation,      \* the component state of SimulationPage
  calls            \* the analyzeCreative calls running side by side

vars == << pc, reader, OPENAI_API_KEY, decode, extractor, imageAnalysis, analysisJson,
           heatmapData, placementData, exchange, requests, promise, settleCount,
           scoreArgs, scoreRet, synthArgs, synthRet, extractArgs, extractRet,
           store, storeCall, route, upload, sessionItem, simulation, calls >>

\* the direct calls of the synthesizer and of the pixel scan
directCalls == << synthArgs, synthRet, extractArgs, extractRet >>

NoDirectCalls ==
  /\ synthArgs = Unset
  /\ synthRet = Unset
  /\ extractArgs = << >>
  /\ extractRet = Unset

\* the analysis store
InitialStore ==
  [analysis |-> Null, isLoading |-> FALSE, error |-> Null, uploadedFile |-> Null,
   selectedRetailer |-> "", selectedPlacement |-> "", retailerName |-> "",
   placementName |-> ""]

\* the component state of UploadPage when it mounts
InitialUpload ==
  [selectedFile |-> Null, selectedRetailer |-> "", selectedPlacement |-> "",
   isLoading |-> FALSE, previewUrl |-> "", submit |-> Null]

\* the component state of SimulationPage when it mounts; reads says where the
\* page takes its data from: sessionStorage (components/pages/SimulationPage)
\* or the analysis store (the variant written against useAnalysisStore)
MountSimulation(reads) ==
  [creativeData |-> Null, riskScore |-> 0, effect |-> "pending", reads |-> reads]

InitialSimulation == MountSimulation("sessionStorage")

\* the store and the pages
frontEnd == << store, storeCall, route, upload, sessionItem, simulation >>

\* no page is shown and the store is untouched
NoFrontEnd ==
  /\ store = InitialStore
  /\ storeCall = Unset
  /\ route = "/"
  /\ upload = InitialUpload
  /\ sessionItem = Null
  /\ simulation = InitialSimulation

NoCalls == calls = << >>

NoExchange == [compliance |-> "none", heatmap |-> "none", placement |-> "none"]

\* analyzeCreative has been called: reader.readAsDataURL(imageFile) is running
EngineInit ==
  /\ pc = "reading"
  /\ reader = "reading"
  /\ OPENAI_API_KEY \in BOOLEAN
  /\ decode = "none"
  /\ extractor = [state |-> "idle", value |-> Unset]
  /\ imageAnalysis = Unset
  /\ analysisJson = Unset
  /\ heatmapData = Unset
  /\ placementData = Unset
  /\ exchange = NoExchange
  /\ requests = << >>
  /\ promise = [state |-> "pending", value |-> Unset]
  /\ settleCount = 0

Init ==
  /\ EngineInit
  /\ scoreArgs = Unset
  /\ scoreRet = Unset
  /\ NoDirectCalls
  /\ NoFrontEnd
  /\ NoCalls

\* the async function analyzeCreativeWithVision completes and reader.onload
\* settles the caller's promise
Finish(completion) ==
  /\ promise' = settle(completion)
  /\ settleCount' = settleCount + 1
  /\ pc' = "settled"

\* reader.onerror = () => reject(reader.error)
ReaderOnError ==
  /\ pc = "reading"
  /\ reader' = "error"
  /\ Finish(Thrown(Error("reader.error")))
  /\ UNCHANGED << OPENAI_API_KEY, decode, extractor, imageAnalysis, analysisJson,
                  heatmapData, placementData, exchange, requests, scoreArgs, scoreRet, directCalls,
                  frontEnd, calls >>

\* reader.onload: analyzeCreativeWithVision starts, reads the key and calls
\* analyzeImageCharacteristics, then awaits its promise
ReaderOnLoad ==
  /\ pc = "reading"
  /\ \E ctxAvailable \in BOOLEAN :
       /\ extractor' = startImageAnalysis(ctxAvailable)
       /\ decode' = IF ctxAvailable THEN "decoding" ELSE "noContext"
  /\ pc' = "awaitImage"
  /\ reader' = "load"
  /\ UNCHANGED << OPENAI_API_KEY, imageAnalysis, analysisJson, heatmapData, placementData,
                  exchange, requests, promise, settleCount, scoreArgs, scoreRet, directCalls,
                  frontEnd, calls >>

\* img.onload runs to its end and resolves the computed profile
ImgOnLoad ==
  /\ pc = "awaitImage" /\ decode = "decoding"
  /\ \E data \in PixelBuffers :
       extractor' = [state |-> "resolved", value |-> extractProfile(data)]
  /\ decode' = "loaded"
  /\ UNCHANGED << pc, reader, OPENAI_API_KEY, imageAnalysis, analysisJson, heatmapData,
                  placementData, exchange, requests, promise, settleCount, scoreArgs,
                  scoreRet, directCalls,
                  frontEnd, calls >>

\* img.onload throws before resolve (drawImage / getImageData on a canvas the
\* browser cannot back): the exception leaves the event handler, outside the
\* try of analyzeImageCharacteristics, and nothing resolves the promise
ImgOnLoadThrows ==
  /\ pc = "awaitImage" /\ decode = "decoding"
  /\ decode' = "handlerThrew"
  /\ UNCHANGED << pc, reader, OPENAI_API_KEY, extractor, imageAnalysis, analysisJson,
                  heatmapData, placementData, exchange, requests, promise, settleCount,
                  scoreArgs, scoreRet, directCalls,
                  frontEnd, calls >>

\* img.onerror
ImgOnError ==
  /\ pc = "awaitImage" /\ decode = "decoding"
  /\ extractor' = imageLoadError
  /\ decode' = "loadError"
  /\ UNCHANGED << pc, reader, OPENAI_API_KEY, imageAnalysis, analysisJson, heatmapData,
                  placementData, exchange, requests, promise, settleCount, scoreArgs,
                  scoreRet, directCalls,
                  frontEnd, calls >>

\* the await on analyzeImageCharacteristics resumes: a rejection leaves
\* analyzeCreativeWithVision (the await is outside its try); otherwise the key
\* decides between the local path and the first fetch
AfterImageAnalysis ==
  /\ pc = "awaitImage"
  /\ extractor.state \in {"resolved", "rejected"}
  /\ IF extractor.state = "rejected"
       THEN /\ Finish(Thrown(extractor.value))
            /\ UNCHANGED << imageAnalysis, requests >>
       ELSE /\ imageAnalysis' = extractor.value
            /\ IF localOnly(OPENAI_API_KEY)
                 THEN /\ Finish(Returned(generateMockAnalysis(extractor.value)))
                      /\ UNCHANGED requests
                 ELSE /\ requests' = Append(requests, "compliance")
                      /\ pc' = "awaitCompliance"
                      /\ UNCHANGED << promise, settleCount >>
  /\ UNCHANGED << reader, OPENAI_API_KEY, decode, extractor, analysisJson, heatmapData,
                  placementData, exchange, scoreArgs, scoreRet, directCalls,
                  frontEnd, calls >>

\* a failed first exchange after which the second request is sent all the same
ComplianceFailsContinues ==
  /\ pc = "awaitCompliance"
  /\ \E kind \in FailureKinds :
       exchange' = [exchange EXCEPT !.compliance = kind]
  /\ analysisJson' = [designMetrics |-> Absent, riskFactors |-> Absent,
                      complianceChecks |-> Absent, suggestions |-> Absent]
  /\ requests' = Append(requests, "heatmap")
  /\ pc' = "awaitHeatmap"
  /\ UNCHANGED << reader, OPENAI_API_KEY, decode, extractor, imageAnalysis, heatmapData,
                  placementData, promise, settleCount, scoreArgs, scoreRet, directCalls,
                  frontEnd, calls >>

\* the first exchange fails: rejected fetch and unparsable body go to the
\* catch block, a non-success response returns the synthesized analysis
ComplianceFails ==
  /\ pc = "awaitCompliance"
  /\ \E kind \in FailureKinds :
       /\ exchange' = [exchange EXCEPT !.compliance = kind]
       /\ Finish(IF kind = "notOk" THEN complianceNotOk(imageAnalysis)
                 ELSE visionCatch(Error("Error"), imageAnalysis))
  /\ UNCHANGED << reader, OPENAI_API_KEY, decode, extractor, imageAnalysis, analysisJson,
                  heatmapData, placementData, requests, scoreArgs, scoreRet, directCalls,
                  frontEnd, calls >>

\* the first exchange yields a JSON value; building the second request reads
\* analysisJson.designMetrics, which throws on null
ComplianceParsed ==
  /\ pc = "awaitCompliance"
  /\ \E json \in ParsedCompliance :
       /\ analysisJson' = json
       /\ exchange' = [exchange EXCEPT !.compliance = "ok"]
       /\ IF json = Null
            THEN /\ Finish(visionCatch(Error("TypeError"), imageAnalysis))
                 /\ UNCHANGED requests
            ELSE /\ requests' = Append(requests, "heatmap")
                 /\ pc' = "awaitHeatmap"
                 /\ UNCHANGED << promise, settleCount >>
  /\ UNCHANGED << reader, OPENAI_API_KEY, decode, extractor, imageAnalysis, heatmapData,
                  placementData, scoreArgs, scoreRet, directCalls,
                  frontEnd, calls >>

\* a second exchange that is sent again after its fetch was rejected
HeatmapResponseRetries ==
  /\ pc = "awaitHeatmap"
  /\ Len(requests) < 4
  /\ exchange' = [exchange EXCEPT !.heatmap = "rejected"]
  /\ requests' = Append(requests, "heatmap")
  /\ UNCHANGED << pc, reader, OPENAI_API_KEY, decode, extractor, imageAnalysis, analysisJson,
                  heatmapData, placementData, promise, settleCount, scoreArgs, scoreRet,
                  directCalls,
                  frontEnd, calls >>

\* the second exchange ends; only a rejected fetch or an unparsable body
\* throws, a non-success response is replaced by the default heatmap
HeatmapResponse ==
  /\ pc = "awaitHeatmap"
  /\ \/ \E kind \in {"rejected", "unparsable"} :
          /\ exchange' = [exchange EXCEPT !.heatmap = kind]
          /\ Finish(visionCatch(Error("Error"), imageAnalysis))
          /\ UNCHANGED << heatmapData, requests >>
     \/ /\ exchange' = [exchange EXCEPT !.heatmap = "notOk"]
        /\ heatmapData' = heatmapNotOk
        /\ requests' = Append(requests, "placement")
        /\ pc' = "awaitPlacement"
        /\ UNCHANGED << promise, settleCount >>
     \/ \E parsed \in ParsedHeatmap :
          /\ exchange' = [exchange EXCEPT !.heatmap = "ok"]
          /\ heatmapData' = parsed
          /\ requests' = Append(requests, "placement")
          /\ pc' = "awaitPlacement"
          /\ UNCHANGED << promise, settleCount >>
  /\ UNCHANGED << reader, OPENAI_API_KEY, decode, extractor, imageAnalysis, analysisJson,
                  placementData, scoreArgs, scoreRet, directCalls,
                  frontEnd, calls >>

\* the third exchange ends and the rest of the try block runs; whatever it
\* throws is caught by the catch block
PlacementResponse ==
  /\ pc = "awaitPlacement"
  /\ \/ \E kind \in {"rejected", "unparsable"} :
          /\ exchange' = [exchange EXCEPT !.placement = kind]
          /\ Finish(visionCatch(Error("Error"), imageAnalysis))
          /\ UNCHANGED placementData
     \/ \E parsed \in ParsedPlacement \cup {placementNotOk} :
          /\ exchange' = [exchange EXCEPT !.placement =
                            IF parsed = placementNotOk THEN "notOk" ELSE "ok"]
          /\ placementData' = parsed
          /\ LET done == compileResult(analysisJson, heatmapData, parsed)
             IN Finish(IF done.kind = "throw" THEN visionCatch(done.value, imageAnalysis)
                       ELSE done)
  /\ UNCHANGED << reader, OPENAI_API_KEY, decode, extractor, imageAnalysis, analysisJson,
                  heatmapData, requests, scoreArgs, scoreRet, directCalls,
                  frontEnd, calls >>

Next ==
  \/ ReaderOnError
  \/ ReaderOnLoad
  \/ ImgOnLoad
  \/ ImgOnLoadThrows
  \/ ImgOnError
  \/ AfterImageAnalysis
  \/ ComplianceFails
  \/ ComplianceParsed
  \/ HeatmapResponse
  \/ PlacementResponse

Spec == Init /\ [][Next]_vars

\* every pending browser callback and every remote request eventually completes
SpecLive == Spec /\ WF_vars(Next)

\* ------------------------------------------- the Risk Scorer called directly
\* metric values in 0..100 around the band edges and the documented examples
ScorerMetricValues == { 0, 59, 60, 74, 75, 80, 85, 88, 90, 92, 100 }

ScorerMetrics ==
  [compliance : ScorerMetricValues, attention : ScorerMetricValues,
   readability : ScorerMetricValues, brandConsistency : ScorerMetricValues]

factorList(k) == [i \in 1..k |-> "Low contrast"]

\* no analysis is running
EngineIdle ==
  /\ pc = "idle"
  /\ reader = "reading"
  /\ OPENAI_API_KEY = FALSE
  /\ decode = "none"
  /\ extractor = [state |-> "idle", value |-> Unset]
  /\ imageAnalysis = Unset
  /\ analysisJson = Unset
  /\ heatmapData = Unset
  /\ placementData = Unset
  /\ exchange = NoExchange
  /\ requests = << >>
  /\ promise = [state |-> "pending", value |-> Unset]
  /\ settleCount = 0

ScorerInit ==
  /\ EngineIdle
  /\ scoreArgs \in [metrics : ScorerMetrics,
                    riskFactors : { factorList(k) : k \in 0..MaxRiskFactors }]
  /\ scoreRet = Unset
  /\ NoDirectCalls
  /\ NoFrontEnd
  /\ NoCalls

ScoreCall ==
  /\ scoreRet = Unset
  /\ scoreRet' = calculateRiskScore(scoreArgs.metrics, scoreArgs.riskFactors)
  /\ UNCHANGED << pc, reader, OPENAI_API_KEY, decode, extractor, imageAnalysis,
                  analysisJson, heatmapData, placementData, exchange, requests, promise,
                  settleCount, scoreArgs, directCalls,
                  frontEnd, calls >>

ScorerNext == ScoreCall

SpecScorer == ScorerInit /\ [][ScorerNext]_vars

\* ----------------------------------------- analyzeCreative calls side by side
\* Every variable of analyzeCreative and analyzeCreativeWithVision is a local
\* of one call, so each call has its own record; the calls share the
\* environment key only.  A call runs between two awaits without interruption.
Calls == { 1, 2 }

PairBuffers == { << <<0, 0, 0>> >>, << <<0, 0, 0>>, <<255, 255, 255>> >> }

PairCompliance ==
  { Null,
    [designMetrics |-> Some(InRangeMetrics), riskFactors |-> Some(remoteFactors(1)),
     complianceChecks |-> Some(RemoteChecks), suggestions |-> Some(RemoteSuggestions)],
    [designMetrics |-> Absent, riskFactors |-> Some(remoteFactors(0)),
     complianceChecks |-> Absent, suggestions |-> Absent] }

PairPlacement == { [placements |-> Some(remotePlacements(1))], [placements |-> Absent], Null }

\* an object literal evaluated by the module once, whichever call asks for it
allocatedOnce(i, site) == [call |-> 0, site |-> site]

\* the object an object literal, JSON.parse or map yields when call i
\* evaluates it: a new object on every evaluation
allocated(i, site) == [call |-> i, site |-> site]

StartedCall ==
  [pc |-> "reading", decode |-> "none", data |-> << >>, imageAnalysis |-> Unset,
   analysisJson |-> Unset, heatmapData |-> Unset, placementData |-> Unset,
   exchange |-> NoExchange, promise |-> [state |-> "pending", value |-> Unset],
   objects |-> Unset]

\* the objects the returned result is made of
resultObjects(i) ==
  [result |-> allocated(i, "result"),
   heatmapData |-> allocated(i, "heatmapData"),
   placementSimulations |-> allocated(i, "placementSimulations")]

\* call i settles its promise
finished(c, i, completion) ==
  [c EXCEPT !.pc = "settled", !.promise = settle(completion),
            !.objects = IF completion.kind = "return" THEN resultObjects(i) ELSE Unset]

PairInit ==
  /\ pc = "idle"
  /\ reader = "reading"
  /\ OPENAI_API_KEY \in BOOLEAN
  /\ decode = "none"
  /\ extractor = [state |-> "idle", value |-> Unset]
  /\ imageAnalysis = Unset
  /\ analysisJson = Unset
  /\ heatmapData = Unset
  /\ placementData = Unset
  /\ exchange = NoExchange
  /\ requests = << >>
  /\ promise = [state |-> "pending", value |-> Unset]
  /\ settleCount = 0
  /\ scoreArgs = Unset
  /\ scoreRet = Unset
  /\ NoDirectCalls
  /\ NoFrontEnd
  /\ calls = [i \in Calls |-> StartedCall]

\* call i takes one step and leaves everything else alone
CallBecomes(i, c) ==
  /\ calls' = [calls EXCEPT ![i] = c]
  /\ UNCHANGED << pc, reader, OPENAI_API_KEY, decode, extractor, imageAnalysis, analysisJson,
                  heatmapData, placementData, exchange, requests, promise, settleCount,
                  scoreArgs, scoreRet, directCalls, frontEnd >>

CallReaderOnError(i) ==
  /\ calls[i].pc = "reading"
  /\ CallBecomes(i, finished(calls[i], i, Thrown(Error("reader.error"))))

\* reader.onload up to the await, then img.onload, img.onerror or a missing
\* 2d context decides the profile
CallReaderOnLoad(i) ==
  /\ calls[i].pc = "reading"
  /\ \E ctxAvailable \in BOOLEAN :
       CallBecomes(i, [calls[i] EXCEPT
                         !.pc = IF ctxAvailable THEN "decoding" ELSE "awaitImage",
                         !.decode = IF ctxAvailable THEN "decoding" ELSE "noContext",
                         !.imageAnalysis = startImageAnalysis(ctxAvailable).value])

CallImgOnLoad(i) ==
  /\ calls[i].pc = "decoding"
  /\ \E data \in PairBuffers :
       CallBecomes(i, [calls[i] EXCEPT !.pc = "awaitImage", !.decode = "loaded",
                                       !.data = data,
                                       !.imageAnalysis = extractProfile(data)])

CallImgOnLoadThrows(i) ==
  /\ calls[i].pc = "decoding"
  /\ CallBecomes(i, [calls[i] EXCEPT !.pc = "stuck", !.decode = "handlerThrew"])

CallImgOnError(i) ==
  /\ calls[i].pc = "decoding"
  /\ CallBecomes(i, [calls[i] EXCEPT !.pc = "awaitImage", !.decode = "loadError",
                                     !.imageAnalysis = imageLoadError.value])

CallAfterImageAnalysis(i) ==
  /\ calls[i].pc = "awaitImage"
  /\ CallBecomes(i, IF localOnly(OPENAI_API_KEY)
                      THEN finished(calls[i], i,
                                    Returned(generateMockAnalysis(calls[i].imageAnalysis)))
                      ELSE [calls[i] EXCEPT !.pc = "awaitCompliance"])

CallComplianceFails(i) ==
  /\ calls[i].pc = "awaitCompliance"
  /\ \E kind \in FailureKinds :
       CallBecomes(i, finished([calls[i] EXCEPT !.exchange.compliance = kind], i,
                               IF kind = "notOk" THEN complianceNotOk(calls[i].imageAnalysis)
                               ELSE visionCatch(Error("Error"), calls[i].imageAnalysis)))

CallComplianceParsed(i) ==
  /\ calls[i].pc = "awaitCompliance"
  /\ \E json \in PairCompliance :
       LET c == [calls[i] EXCEPT !.exchange.compliance = "ok", !.analysisJson = json]
       IN CallBecomes(i, IF json = Null
                           THEN finished(c, i, visionCatch(Error("TypeError"), c.imageAnalysis))
                           ELSE [c EXCEPT !.pc = "awaitHeatmap"])

CallHeatmapResponse(i) ==
  /\ calls[i].pc = "awaitHeatmap"
  /\ \/ \E kind \in {"rejected", "unparsable"} :
          CallBecomes(i, finished([calls[i] EXCEPT !.exchange.heatmap = kind], i,
                                  visionCatch(Error("Error"), calls[i].imageAnalysis)))
     \/ CallBecomes(i, [calls[i] EXCEPT !.exchange.heatmap = "notOk",
                                        !.heatmapData = heatmapNotOk,
                                        !.pc = "awaitPlacement"])
     \/ \E parsed \in ParsedHeatmap :
          CallBecomes(i, [calls[i] EXCEPT !.exchange.heatmap = "ok",
                                          !.heatmapData = parsed,
                                          !.pc = "awaitPlacement"])

CallPlacementResponse(i) ==
  /\ calls[i].pc = "awaitPlacement"
  /\ \/ \E kind \in {"rejected", "unparsable"} :
          CallBecomes(i, finished([calls[i] EXCEPT !.exchange.placement = kind], i,
                                  visionCatch(Error("Error"), calls[i].imageAnalysis)))
     \/ \E parsed \in PairPlacement \cup {placementNotOk} :
          LET c == [calls[i] EXCEPT !.exchange.placement =
                                      IF parsed = placementNotOk THEN "notOk" ELSE "ok",
                                    !.placementData = parsed]
              done == compileResult(c.analysisJson, c.heatmapData, parsed)
          IN CallBecomes(i, finished(c, i,
                                     IF done.kind = "throw"
                                       THEN visionCatch(done.value, c.imageAnalysis)
                                       ELSE done))

PairNext ==
  \E i \in Calls :
    \/ CallReaderOnError(i)
    \/ CallReaderOnLoad(i)
    \/ CallImgOnLoad(i)
    \/ CallImgOnLoadThrows(i)
    \/ CallImgOnError(i)
    \/ CallAfterImageAnalysis(i)
    \/ CallComplianceFails(i)
    \/ CallComplianceParsed(i)
    \/ CallHeatmapResponse(i)
    \/ CallPlacementResponse(i)

SpecPair == PairInit /\ [][PairNext]_vars

\* ------------------------------------------------------------ analysis store
\* set(partial) of zustand merges the given fields into the state object

\* setAnalysis: (analysis) => set({ analysis, error: null })
setAnalysis(state, analysis) == [state EXCEPT !.analysis = analysis, !.error = Null]

\* setLoading: (isLoading) => set({ isLoading })
setLoading(state, isLoading) == [state EXCEPT !.isLoading = isLoading]

\* setError: (error) => set({ error })
setError(state, error) == [state EXCEPT !.error = error]

\* setUploadContext
setUploadContext(state, context) ==
  [state EXCEPT !.uploadedFile = context.file,
                !.selectedRetailer = context.retailerId,
                !.selectedPlacement = context.placementId,
                !.retailerName = context.retailerName,
                !.placementName = context.placementName]

\* a clearAnalysis that resets the whole state object
clearAnalysisResetsAll(state) == InitialStore

\* clearAnalysis
clearAnalysis(state) ==
  [state EXCEPT !.analysis = Null, !.uploadedFile = Null, !.selectedRetailer = "",
                !.selectedPlacement = "", !.retailerName = "", !.placementName = "",
                !.error = Null]

\* the analysis engine, taken as a whole
engine == << pc, reader, OPENAI_API_KEY, decode, extractor, imageAnalysis, analysisJson,
             heatmapData, placementData, exchange, requests, promise, settleCount,
             scoreArgs, scoreRet, directCalls, calls >>

EngineUnused ==
  /\ EngineIdle
  /\ scoreArgs = Unset
  /\ scoreRet = Unset
  /\ NoDirectCalls
  /\ NoCalls

\* results a component may hand to setAnalysis
StoreAnalyses ==
  { generateMockAnalysis(DefaultProfile),
    generateMockAnalysis([DefaultProfile EXCEPT !.contrast = 30]) }

StoreErrors == { Null, Some("Analysis failed"), Some("Network error") }

StoreContexts ==
  { [file |-> [name |-> "banner.png"], retailerId |-> "retailer-1",
     placementId |-> "placement-1", retailerName |-> "Retailer One",
     placementName |-> "Homepage banner"],
    [file |-> [name |-> "shelf.png"], retailerId |-> "retailer-2",
     placementId |-> "placement-2", retailerName |-> "Retailer Two",
     placementName |-> "Shelf strip"] }

StoreInit ==
  /\ EngineUnused
  /\ NoFrontEnd

\* one store action is invoked
StoreDo(op, arg, next) ==
  /\ store' = next
  /\ storeCall' = [op |-> op, arg |-> arg]
  /\ UNCHANGED << engine, route, upload, sessionItem, simulation >>

SetAnalysis == \E analysis \in StoreAnalyses :
  StoreDo("setAnalysis", analysis, setAnalysis(store, analysis))

SetLoading == \E isLoading \in BOOLEAN :
  StoreDo("setLoading", Some(isLoading), setLoading(store, isLoading))

SetError == \E error \in StoreErrors :
  StoreDo("setError", error, setError(store, error))

SetUploadContext == \E context \in StoreContexts :
  StoreDo("setUploadContext", context, setUploadContext(store, context))

ClearAnalysis == StoreDo("clearAnalysis", Null, clearAnalysis(store))

StoreNext ==
  \/ SetAnalysis
  \/ SetLoading
  \/ SetError
  \/ SetUploadContext
  \/ ClearAnalysis

SpecStore == StoreInit /\ [][StoreNext]_vars

\* ------------------------------------------------------- presentation layer
UploadFiles == { [name |-> "banner.png"], [name |-> "shelf.png"] }
RetailerIds == { "retailer-1", "retailer-2" }
PlacementIds == { "placement-1", "placement-2" }

\* Math.floor(Math.random() * 30) + 70
SimulatedScores == 70..99

PagesInit ==
  /\ EngineUnused
  /\ store = InitialStore
  /\ storeCall = Unset
  /\ route = "/upload"
  /\ upload = InitialUpload
  /\ sessionItem = Null
  /\ simulation \in { MountSimulation(reads) : reads \in {"sessionStorage", "analysisStore"} }

\* handleFileChange / handleDrop with a file
HandleFileChange ==
  /\ route = "/upload"
  /\ \E file \in UploadFiles :
       upload' = [upload EXCEPT !.selectedFile = file, !.previewUrl = "blob:" \o file.name]
  /\ UNCHANGED << engine, store, storeCall, route, sessionItem, simulation >>

\* onChange of the retailer select
SelectRetailer ==
  /\ route = "/upload"
  /\ \E id \in RetailerIds \cup {""} : upload' = [upload EXCEPT !.selectedRetailer = id]
  /\ UNCHANGED << engine, store, storeCall, route, sessionItem, simulation >>

\* onChange of the placement select
SelectPlacement ==
  /\ route = "/upload"
  /\ \E id \in PlacementIds \cup {""} : upload' = [upload EXCEPT !.selectedPlacement = id]
  /\ UNCHANGED << engine, store, storeCall, route, sessionItem, simulation >>

\* handleSubmit up to its await: the button is disabled while isLoading, and
\* an incomplete form returns at once
HandleSubmit ==
  /\ route = "/upload"
  /\ ~upload.isLoading
  /\ upload.selectedFile # Null
  /\ upload.selectedRetailer # ""
  /\ upload.selectedPlacement # ""
  /\ upload' = [upload EXCEPT !.isLoading = TRUE,
                              !.submit = [fileName |-> upload.selectedFile.name,
                                          retailerId |-> upload.selectedRetailer,
                                          placementId |-> upload.selectedPlacement,
                                          previewUrl |-> upload.previewUrl]]
  /\ UNCHANGED << engine, store, storeCall, route, sessionItem, simulation >>

\* handleSubmit after the 1500 ms timer: the selection captured by the handler
\* goes to sessionStorage and the router shows /simulation
SubmitResumes ==
  /\ route = "/upload"
  /\ upload.submit # Null
  /\ sessionItem' = upload.submit
  /\ upload' = [upload EXCEPT !.isLoading = FALSE, !.submit = Null]
  /\ route' = "/simulation"
  /\ simulation' = MountSimulation(simulation.reads)
  /\ UNCHANGED << engine, store, storeCall >>

\* the useEffect of SimulationPage after it mounted
SimulationEffect ==
  /\ route = "/simulation"
  /\ simulation.effect = "pending"
  /\ IF simulation.reads = "sessionStorage"
       THEN IF sessionItem = Null
              THEN /\ route' = "/upload"
                   /\ upload' = InitialUpload
                   /\ UNCHANGED simulation
              ELSE /\ \E score \in SimulatedScores :
                        simulation' = [simulation EXCEPT !.creativeData = sessionItem,
                                                         !.riskScore = score,
                                                         !.effect = "done"]
                   /\ UNCHANGED << route, upload >>
       ELSE IF store.analysis = Null /\ ~store.isLoading
              THEN /\ route' = "/upload"
                   /\ upload' = InitialUpload
                   /\ UNCHANGED simulation
              ELSE /\ simulation' = [simulation EXCEPT !.effect = "done"]
                   /\ UNCHANGED << route, upload >>
  /\ UNCHANGED << engine, store, storeCall, sessionItem >>

\* the user opens /simulation by a link or the address bar
OpenSimulation ==
  /\ route = "/upload"
  /\ upload.submit = Null
  /\ route' = "/simulation"
  /\ simulation' = MountSimulation(simulation.reads)
  /\ UNCHANGED << engine, store, storeCall, upload, sessionItem >>

\* the user goes back to /upload
OpenUpload ==
  /\ route = "/simulation"
  /\ simulation.effect = "done"
  /\ route' = "/upload"
  /\ upload' = InitialUpload
  /\ UNCHANGED << engine, store, storeCall, sessionItem, simulation >>

PagesNext ==
  \/ HandleFileChange
  \/ SelectRetailer
  \/ SelectPlacement
  \/ HandleSubmit
  \/ SubmitResumes
  \/ SimulationEffect
  \/ OpenSimulation
  \/ OpenUpload

SpecPages == PagesInit /\ [][PagesNext]_vars

\* the Good band starting at 80
getRiskLabelGoodFrom80(score) ==
  IF score >= 90 THEN "Excellent"
  ELSE IF score >= 80 THEN "Good"
  ELSE IF score >= 60 THEN "Fair"
  ELSE "Needs Work"

\* getRiskLabel of SimulationPage
getRiskLabel(score) ==
  IF score >= 90 THEN "Excellent"
  ELSE IF score >= 75 THEN "Good"
  ELSE IF score >= 60 THEN "Fair"
  ELSE "Needs Work"

\* ------------------------------------------------------------------ claims
metricSum(m) == m.compliance + m.attention + m.readability + m.brandConsistency

clamp(v, lo, hi) == IF v < lo THEN lo ELSE IF v > hi THEN hi ELSE v

\* C1: for metrics in 0..100 and any riskFactors list, calculateRiskScore
\* returns a score in 0..100 whose label is the band of that score:
\* >= 90 Excellent, 75..89 Good, 60..74 Fair, below 60 Needs Work.
C1_ScoreInBand ==
  scoreRet # Unset =>
    /\ scoreRet.score \in 0..100
    /\ scoreRet.score >= 90 => scoreRet.label = "Excellent"
    /\ scoreRet.score \in 75..89 => scoreRet.label = "Good"
    /\ scoreRet.score \in 60..74 => scoreRet.label = "Fair"
    /\ scoreRet.score < 60 => scoreRet.label = "Needs Work"

\* a score on a band edge: 90 is returned, labelled Excellent
C1_Witness ==
  /\ scoreRet # Unset
  /\ scoreRet.score = 90
  /\ scoreRet.label = "Excellent"
  /\ scoreArgs.riskFactors # << >>

\* C2: the score is the mean of the four metrics rounded once to the nearest
\* integer (halves up), minus 5 per risk factor, clamped to 0..100; metrics
\* (92,85,88,90) without factors give 89 / Good and (80,80,80,80) with one
\* factor give 75 / Good.
C2_ScoreFormula ==
  scoreRet # Unset =>
    LET sum == metricSum(scoreArgs.metrics)
        k == Len(scoreArgs.riskFactors)
    IN /\ \E avg \in 0..100 :
            /\ 4 * avg - 2 <= sum
            /\ sum < 4 * avg + 2
            /\ scoreRet.score = clamp(avg - 5 * k, 0, 100)
       /\ ( /\ scoreArgs.metrics = [compliance |-> 92, attention |-> 85,
                                    readability |-> 88, brandConsistency |-> 90]
            /\ k = 0 )
            => scoreRet.score = 89 /\ scoreRet.label = "Good"
       /\ ( /\ scoreArgs.metrics = [compliance |-> 80, attention |-> 80,
                                    readability |-> 80, brandConsistency |-> 80]
            /\ k = 1 )
            => scoreRet.score = 75 /\ scoreRet.label = "Good"

\* the documented example whose mean 88.75 rounds up to 89
C2_Witness ==
  /\ scoreRet # Unset
  /\ scoreArgs.metrics = [compliance |-> 92, attention |-> 85,
                          readability |-> 88, brandConsistency |-> 90]
  /\ scoreArgs.riskFactors = << >>
  /\ scoreRet.score = 89

\* the result handed to the caller, once the promise is resolved
Resolved == pc = "settled" /\ promise.state = "resolved"
result == promise.value

\* the compliance exchange succeeded: a success response whose payload parsed
\* to an object carrying designMetrics and riskFactors
complianceSucceeded ==
  /\ exchange.compliance = "ok"
  /\ analysisJson # Null
  /\ analysisJson.designMetrics # Absent
  /\ analysisJson.riskFactors # Absent

\* C3 (as claimed): on every path the returned riskAnalysis.score is
\* clamp(round(mean of the returned designMetrics) - 5 * |riskFactors|, 0, 100).
C3_ScoredByRiskScorer ==
  Resolved =>
    result.riskAnalysis.score =
      clamp(Round(metricSum(result.designMetrics), 4)
              - 5 * Len(result.riskAnalysis.riskFactors), 0, 100)

\* C4 (as claimed): when the compliance exchange succeeded and only the heatmap
\* exchange failed (non-success or unparsable payload), the result keeps the
\* remote complianceChecks and designMetrics and uses the default heatmap; the
\* same for the placement exchange and the default placements.
C4_PartialFallback ==
  (pc = "settled" /\ complianceSucceeded) =>
    /\ ( /\ exchange.heatmap \in {"notOk", "unparsable"}
         /\ exchange.placement = "none" \/ (exchange.placement = "ok" /\ placementData # Null) )
         => /\ promise.state = "resolved"
            /\ result.designMetrics = analysisJson.designMetrics.some
            /\ result.complianceChecks =
                 (IF analysisJson.complianceChecks = Absent THEN << >>
                  ELSE analysisJson.complianceChecks.some)
            /\ result.heatmapData = generateMockHeatmap
    /\ ( /\ exchange.heatmap = "ok"
         /\ exchange.placement \in {"notOk", "unparsable"} )
         => /\ promise.state = "resolved"
            /\ result.designMetrics = analysisJson.designMetrics.some
            /\ result.complianceChecks =
                 (IF analysisJson.complianceChecks = Absent THEN << >>
                  ELSE analysisJson.complianceChecks.some)
            /\ result.placementSimulations = generateMockPlacements.placements

\* C5: with a credential configured and the remote endpoint unreachable (the
\* request rejects or returns non-success), the call still resolves with
\* non-empty complianceChecks, the 5-zone default heatmap and the 3 default
\* placements.
C5_FallbackComplete ==
  ( /\ pc = "settled"
    /\ OPENAI_API_KEY
    /\ exchange.compliance \in {"rejected", "notOk"} )
    => /\ promise.state = "resolved"
       /\ Len(result.complianceChecks) > 0
       /\ result.heatmapData = generateMockHeatmap
       /\ Len(result.heatmapData.zones) = 5
       /\ result.placementSimulations = generateMockPlacements.placements
       /\ Len(result.placementSimulations) = 3

\* the first request was rejected and the caller holds a result
C5_Witness ==
  /\ pc = "settled"
  /\ OPENAI_API_KEY
  /\ exchange.compliance = "rejected"
  /\ promise.state = "resolved"
  /\ requests = << "compliance" >>

\* C6: analyzeCreative rejects only when the FileReader fails, with
\* reader.error unchanged; once the file is read, no decode failure, remote
\* failure, malformed JSON or missing credential makes it reject.
C6_OnlyReaderRejects ==
  /\ promise.state = "rejected" => (reader = "error" /\ promise.value = Error("reader.error"))
  /\ (pc = "settled" /\ reader = "load") => promise.state = "resolved"

\* the image failed to load and the remote payload was malformed, and the
\* caller still got a result
C6_Witness ==
  /\ pc = "settled"
  /\ decode = "loadError"
  /\ exchange.compliance = "unparsable"
  /\ promise.state = "resolved"

\* C7 (as claimed): once the file has been read, the call eventually settles
\* with exactly one completion, on every path.
C7_EventuallySettles == (reader = "load") ~> (settleCount = 1 /\ promise.state # "pending")

\* C8: without a credential no remote request is issued, and the result is the
\* synthesizer's output for the extracted profile with the default heatmap and
\* the default placements.
C8_NoKeyNoRequest ==
  ~OPENAI_API_KEY =>
    /\ requests = << >>
    /\ exchange = NoExchange
    /\ (pc = "settled" /\ reader = "load") =>
         /\ promise.state = "resolved"
         /\ imageAnalysis = extractor.value
         /\ result = generateMockAnalysis(imageAnalysis)
         /\ result.heatmapData = generateMockHeatmap
         /\ result.placementSimulations = generateMockPlacements.placements

\* no credential, a decoded image, and the caller holds the local result
C8_Witness ==
  /\ ~OPENAI_API_KEY
  /\ pc = "settled"
  /\ decode = "loaded"
  /\ promise.state = "resolved"

\* C9: the promise of analyzeImageCharacteristics is never rejected; when the
\* canvas context is unavailable or the image fails to load it is resolved
\* with hasText=true, textDensity=65, colorCount=120, brightness=128,
\* contrast=45, estimatedReadability=75.
C9_ExtractorAbsorbsFailure ==
  /\ extractor.state # "rejected"
  /\ decode \in {"noContext", "loadError"} =>
       /\ extractor.state = "resolved"
       /\ extractor.value.hasText = TRUE
       /\ extractor.value.textDensity = [num |-> 65, den |-> 1]
       /\ extractor.value.colorCount = 120
       /\ extractor.value.brightness = 128
       /\ extractor.value.contrast = 45
       /\ extractor.value.estimatedReadability = 75

\* the canvas context was unavailable and the default profile was handed on
C9_Witness ==
  /\ decode = "noContext"
  /\ extractor.state = "resolved"
  /\ imageAnalysis = extractor.value

\* ------------------------------------- the synthesizer called directly
\* profile fields around the thresholds of the synthesizer, with values
\* outside the declared ranges on both sides
SynthContrasts == { -100, 0, 34, 35, 39, 40, 45, 49, 50, 100, 1000 }
SynthColorCounts == { 0, 10, 79, 80, 120, 180, 181, 216, 256 }
SynthReadabilities == { -5, 0, 69, 70, 75, 100, 150 }

SynthProfiles ==
  { [hasText |-> n > 10, textDensity |-> [num |-> 65, den |-> 1], colorCount |-> n,
     brightness |-> 128, contrast |-> c, estimatedReadability |-> r] :
       c \in SynthContrasts, n \in SynthColorCounts, r \in SynthReadabilities }

SynthInit ==
  /\ EngineIdle
  /\ scoreArgs = Unset
  /\ scoreRet = Unset
  /\ synthArgs \in SynthProfiles
  /\ synthRet = Unset
  /\ extractArgs = << >>
  /\ extractRet = Unset
  /\ NoFrontEnd
  /\ NoCalls

SynthCall ==
  /\ synthRet = Unset
  /\ synthRet' = generateMockAnalysis(synthArgs)
  /\ UNCHANGED << pc, reader, OPENAI_API_KEY, decode, extractor, imageAnalysis,
                  analysisJson, heatmapData, placementData, exchange, requests, promise,
                  settleCount, scoreArgs, scoreRet, synthArgs, extractArgs, extractRet,
                  frontEnd, calls >>

SynthNext == SynthCall

SpecSynth == SynthInit /\ [][SynthNext]_vars

\* C11 (as claimed): for every profile, out-of-range ones included, each of
\* the four designMetrics of generateMockAnalysis lies in 0..100.
C11_MetricsClamped ==
  synthRet # Unset =>
    /\ synthRet.designMetrics.compliance \in 0..100
    /\ synthRet.designMetrics.attention \in 0..100
    /\ synthRet.designMetrics.readability \in 0..100
    /\ synthRet.designMetrics.brandConsistency \in 0..100

\* C12: generateMockAnalysis never returns more than 4 suggestions.
C12_SuggestionCap == synthRet # Unset => Len(synthRet.suggestions) <= 4

\* both non-default rules trigger (low contrast, busy palette)
C12_Witness ==
  /\ synthRet # Unset
  /\ synthArgs.contrast < 40
  /\ synthArgs.colorCount > 180
  /\ Len(synthRet.suggestions) = 4

\* C13 (as claimed): in every returned result, on the remote path as on the
\* local one, each designMetrics field is in 0..100 and riskAnalysis.score is
\* in 0..100.
C13_ResultInRange ==
  Resolved =>
    /\ result.designMetrics.compliance \in 0..100
    /\ result.designMetrics.attention \in 0..100
    /\ result.designMetrics.readability \in 0..100
    /\ result.designMetrics.brandConsistency \in 0..100
    /\ result.riskAnalysis.score \in 0..100

\* C14 (as claimed): every returned result holds exactly 3 placementSimulations.
C14_ThreePlacements == Resolved => Len(result.placementSimulations) = 3

\* ------------------------------------- the pixel scan called directly
\* an image of twelve pixels, each in a quantised bucket of its own
RampImage ==
  << <<0, 0, 0>>, <<60, 0, 0>>, <<110, 0, 0>>, <<160, 0, 0>>, <<210, 0, 0>>,
     <<255, 0, 0>>, <<0, 60, 0>>, <<0, 110, 0>>, <<0, 160, 0>>, <<0, 210, 0>>,
     <<255, 255, 0>>, <<255, 255, 255>> >>

\* every buffer of up to MaxBufferLen palette pixels, and every prefix of the ramp
ExtractBuffers ==
  UNION { [1..n -> Palette] : n \in 1..MaxBufferLen }
    \cup { SubSeq(RampImage, 1, k) : k \in 1..Len(RampImage) }

ExtractInit ==
  /\ EngineIdle
  /\ scoreArgs = Unset
  /\ scoreRet = Unset
  /\ synthArgs = Unset
  /\ synthRet = Unset
  /\ extractArgs \in ExtractBuffers
  /\ extractRet = Unset
  /\ NoFrontEnd
  /\ NoCalls

ExtractCall ==
  /\ extractRet = Unset
  /\ extractRet' = extractProfile(extractArgs)
  /\ UNCHANGED << pc, reader, OPENAI_API_KEY, decode, extractor, imageAnalysis,
                  analysisJson, heatmapData, placementData, exchange, requests, promise,
                  settleCount, scoreArgs, scoreRet, synthArgs, synthRet, extractArgs,
                  frontEnd, calls >>

ExtractNext == ExtractCall

SpecExtract == ExtractInit /\ [][ExtractNext]_vars

\* v is num / den rounded to the nearest integer, halves up (den > 0)
roundsTo(v, num, den) == 2 * den * v - den <= 2 * num /\ 2 * num < 2 * den * v + den

\* | dark pixels - light pixels | of a buffer: mean channel value < 85, > 170
darkLightGap(data) ==
  Abs(Cardinality({ i \in 1..Len(data) : data[i][1] + data[i][2] + data[i][3] < 255 })
      - Cardinality({ i \in 1..Len(data) : data[i][1] + data[i][2] + data[i][3] > 510 }))

C16_ProfileInRange ==
  extractRet # Unset =>
    /\ extractRet.colorCount \in 0..256
    /\ extractRet.colorCount =
         Cardinality({ << extractArgs[i][1] \div 50, extractArgs[i][2] \div 50,
                          extractArgs[i][3] \div 50 >> : i \in 1..Len(extractArgs) })
    /\ extractRet.brightness \in 0..255
    /\ extractRet.contrast \in 0..100
    /\ extractRet.textDensity.num >= 0
    /\ extractRet.textDensity.num <= 100 * extractRet.textDensity.den
    /\ extractRet.estimatedReadability \in 0..100
    /\ extractRet.hasText <=> extractRet.colorCount > 10

\* eleven distinct quantised colours: hasText is true
C16_Witness ==
  /\ extractRet # Unset
  /\ extractRet.colorCount = 11
  /\ extractRet.hasText

\* C17: generateMockAnalysis returns six checks in the order logo, text
\* readability, colour contrast, dimensions, legal disclaimers, CTA; logo and
\* dimensions pass, legal disclaimers warn, text readability passes iff
\* readability >= 70, colour contrast iff contrast >= 40, CTA iff
\* contrast >= 35, each warning otherwise; no check has status fail.
C17_ComplianceChecklist ==
  synthRet # Unset =>
    LET cc == synthRet.complianceChecks
        passIff(b) == IF b THEN "pass" ELSE "warning"
    IN /\ Len(cc) = 6
       /\ [i \in 1..6 |-> cc[i].item] =
            << "Brand logo placement", "Text readability", "Color contrast",
               "Dimension requirements", "Legal disclaimers", "Call-to-action clarity" >>
       /\ cc[1].status = "pass"
       /\ cc[2].status = passIff(synthRet.designMetrics.readability >= 70)
       /\ cc[3].status = passIff(synthArgs.contrast >= 40)
       /\ cc[4].status = "pass"
       /\ cc[5].status = "warning"
       /\ cc[6].status = passIff(synthArgs.contrast >= 35)
       /\ \A i \in 1..Len(cc) : cc[i].status # "fail"

\* contrast between the two thresholds: the CTA passes, colour contrast warns
C17_Witness ==
  /\ synthRet # Unset
  /\ synthArgs.contrast \in 35..39
  /\ synthArgs.estimatedReadability < 70
  /\ synthRet.complianceChecks[6].status = "pass"
  /\ synthRet.complianceChecks[3].status = "warning"
  /\ synthRet.complianceChecks[2].status = "warning"

contrastTitles == { "Improve Color Contrast", "Enhance Color Contrast", "Maintain Color Contrast" }
paletteTitles == { "Add Visual Variety", "Simplify Color Palette", "Color Palette Optimization" }

\* C18: the first suggestion follows contrast (< 40 critical Improve, 40..49
\* warning Enhance, otherwise info Maintain), the second colorCount (< 80 info
\* Add Visual Variety, > 180 warning Simplify, otherwise info Optimization);
\* one suggestion of each family, and the two fixed info suggestions present.
C18_SuggestionRules ==
  synthRet # Unset =>
    LET sg == synthRet.suggestions
        c == synthArgs.contrast
        n == synthArgs.colorCount
        titled(T) == { i \in 1..Len(sg) : sg[i].title \in T }
    IN /\ Len(sg) >= 2
       /\ c < 40 => sg[1].severity = "critical" /\ sg[1].title = "Improve Color Contrast"
       /\ (40 <= c /\ c < 50) =>
            sg[1].severity = "warning" /\ sg[1].title = "Enhance Color Contrast"
       /\ c >= 50 => sg[1].severity = "info" /\ sg[1].title = "Maintain Color Contrast"
       /\ n < 80 => sg[2].severity = "info" /\ sg[2].title = "Add Visual Variety"
       /\ n > 180 => sg[2].severity = "warning" /\ sg[2].title = "Simplify Color Palette"
       /\ (80 <= n /\ n <= 180) =>
            sg[2].severity = "info" /\ sg[2].title = "Color Palette Optimization"
       /\ Cardinality(titled(contrastTitles)) = 1
       /\ Cardinality(titled(paletteTitles)) = 1
       /\ \E i \in 1..Len(sg) : sg[i].title = "Add Legal Disclaimer" /\ sg[i].severity = "info"
       /\ \E i \in 1..Len(sg) :
            sg[i].title = "Test in Retail Environment" /\ sg[i].severity = "info"

\* contrast exactly 40 and a palette of exactly 180 colours
C18_Witness ==
  /\ synthRet # Unset
  /\ synthArgs.contrast = 40
  /\ synthArgs.colorCount = 180
  /\ synthRet.suggestions[1].title = "Enhance Color Contrast"
  /\ synthRet.suggestions[2].title = "Color Palette Optimization"

severityRank(sev) == IF sev = "critical" THEN 3 ELSE IF sev = "warning" THEN 2 ELSE 1

\* C19 (as claimed): no suggestion precedes one of strictly higher severity
\* (critical > warning > info).
C19_PriorityOrder ==
  synthRet # Unset =>
    \A i, j \in 1..Len(synthRet.suggestions) :
      i < j => severityRank(synthRet.suggestions[i].severity)
                 >= severityRank(synthRet.suggestions[j].severity)

\* C20: riskFactors is ['Low contrast'] exactly when contrast < 40, and empty
\* otherwise.
C20_LowContrastFactor ==
  synthRet # Unset =>
    /\ synthArgs.contrast < 40 => synthRet.riskAnalysis.riskFactors = << "Low contrast" >>
    /\ synthArgs.contrast >= 40 => Len(synthRet.riskAnalysis.riskFactors) = 0

\* contrast 39 reports the factor
C20_Witness ==
  /\ synthRet # Unset
  /\ synthArgs.contrast = 39
  /\ synthRet.riskAnalysis.riskFactors = << "Low contrast" >>

\* the profiles analyzeImageCharacteristics can resolve
LocalProfiles == { extractProfile(data) : data \in PixelBuffers } \cup {DefaultProfile}

\* C21 (as claimed): a result carries the one recommendation sentence of its
\* band: whenever a result of the synthesizer has the same label as the
\* returned result, it has the same recommendation, whichever path returned it.
C21_OneSentencePerBand ==
  Resolved =>
    \A p \in LocalProfiles :
      LET local == generateMockAnalysis(p).riskAnalysis
      IN local.label = result.riskAnalysis.label
           => local.recommendation = result.riskAnalysis.recommendation

Exchanges == { "compliance", "heatmap", "placement" }

\* C22: within one analysis each remote exchange is requested at most once, a
\* failed exchange is not requested again, and at most three requests are
\* issued.
C22_AtMostOnce ==
  /\ Len(requests) <= 3
  /\ \A x \in Exchanges : Cardinality({ i \in 1..Len(requests) : requests[i] = x }) <= 1
  /\ \A x \in Exchanges :
       exchange[x] # "none" =>
         Cardinality({ i \in 1..Len(requests) : requests[i] = x }) = 1

\* all three requests were issued although the heatmap response was not ok
C22_Witness ==
  /\ requests = << "compliance", "heatmap", "placement" >>
  /\ exchange.heatmap = "notOk"
  /\ exchange.placement = "rejected"
  /\ pc = "settled"

\* C23: when the compliance exchange returns a non-success response or a body
\* that fails to parse, the call resolves with the complete analysis the
\* synthesizer produces for the profile extracted from this image.
C23_ComplianceFallback ==
  ( /\ pc = "settled"
    /\ exchange.compliance \in {"notOk", "unparsable"} )
    => /\ promise.state = "resolved"
       /\ imageAnalysis = extractor.value
       /\ LET local == generateMockAnalysis(imageAnalysis)
          IN /\ result.complianceChecks = local.complianceChecks
             /\ result.designMetrics = local.designMetrics
             /\ result.suggestions = local.suggestions
             /\ result.riskAnalysis.riskFactors = local.riskAnalysis.riskFactors
             /\ result = local

\* a non-success response for an image whose profile is not the default one
C23_Witness ==
  /\ pc = "settled"
  /\ exchange.compliance = "notOk"
  /\ decode = "loaded"
  /\ imageAnalysis.contrast = 100
  /\ result.designMetrics.compliance = 100
  /\ result.riskAnalysis.riskFactors = << >>

\* C26: the heatmap request is sent only after the compliance response was
\* received with success and parsed, the placement request only after the
\* heatmap exchange has finished, and after a failed compliance exchange no
\* further request is sent.
C26_StrictOrder ==
  /\ \E n \in 0..3 : requests = SubSeq(<< "compliance", "heatmap", "placement" >>, 1, n)
  /\ Len(requests) >= 2 =>
       /\ exchange.compliance = "ok"
       /\ analysisJson # Unset
       /\ analysisJson # Null
  /\ Len(requests) >= 3 =>
       /\ exchange.heatmap \in {"ok", "notOk"}
       /\ heatmapData # Unset
  /\ exchange.compliance \in FailureKinds => requests = << "compliance" >>

\* the placement request is in flight after a parsed heatmap
C26_Witness ==
  /\ pc = "awaitPlacement"
  /\ requests = << "compliance", "heatmap", "placement" >>
  /\ exchange.compliance = "ok"
  /\ exchange.heatmap = "ok"
  /\ exchange.placement = "none"

\* the try block of analyzeCreativeWithVision ran to its return statement
remotePath ==
  /\ Resolved
  /\ exchange.placement \in {"ok", "notOk"}
  /\ compileResult(analysisJson, heatmapData, placementData).kind = "return"

\* C27 (as claimed): a parsed compliance payload without designMetrics or
\* riskFactors yields the synthesized analysis as a whole; the literal
\* {75, 70, 80, 75} is the designMetrics of no returned result; and on the
\* remote path riskAnalysis is computed from the designMetrics that are
\* returned.
C27_FallbackLiteralUnused ==
  Resolved =>
    /\ ( /\ exchange.compliance = "ok"
         /\ analysisJson # Null
         /\ (analysisJson.designMetrics = Absent \/ analysisJson.riskFactors = Absent) )
         => result = generateMockAnalysis(imageAnalysis)
    /\ result.designMetrics # FallbackMetrics
    /\ remotePath =>
         result.riskAnalysis =
           calculateRiskScore(result.designMetrics, result.riskAnalysis.riskFactors)

\* C28: the label SimulationPage derives from the returned score equals the
\* returned label, on the remote and on the local path.
C28_LabelMatchesScore ==
  Resolved => getRiskLabel(result.riskAnalysis.score) = result.riskAnalysis.label

\* a remote-path result two risk factors below its average of 89
C28_Witness ==
  /\ remotePath
  /\ result.designMetrics = InRangeMetrics
  /\ Len(result.riskAnalysis.riskFactors) = 2
  /\ result.riskAnalysis.score = 79
  /\ result.riskAnalysis.label = "Good"

bandRank(label) ==
  IF label = "Excellent" THEN 4 ELSE IF label = "Good" THEN 3
  ELSE IF label = "Fair" THEN 2 ELSE 1

MetricNames == { "compliance", "attention", "readability", "brandConsistency" }

\* C29: for metrics in 0..100, one more risk factor never raises the score,
\* lowers it by exactly 5 while the new score is above 0, and never improves
\* the band; raising a single metric never lowers the score.
C29_Monotone ==
  scoreRet # Unset =>
    LET m == scoreArgs.metrics
        f == scoreArgs.riskFactors
        more == calculateRiskScore(m, Append(f, "Another factor"))
    IN /\ more.score <= scoreRet.score
       /\ more.score > 0 => more.score = scoreRet.score - 5
       /\ bandRank(more.label) <= bandRank(scoreRet.label)
       /\ \A name \in MetricNames : \A v \in ScorerMetricValues :
            v >= m[name] =>
              calculateRiskScore([m EXCEPT ![name] = v], f).score >= scoreRet.score

\* a score of 75 (Good) that one more factor takes down to 70 (Fair)
C29_Witness ==
  /\ scoreRet # Unset
  /\ scoreArgs.metrics = [compliance |-> 80, attention |-> 80,
                          readability |-> 80, brandConsistency |-> 80]
  /\ Len(scoreArgs.riskFactors) = 1
  /\ scoreRet.label = "Good"
  /\ calculateRiskScore(scoreArgs.metrics, Append(scoreArgs.riskFactors, "Another factor")).label
       = "Fair"

uploadContext(state) ==
  << state.uploadedFile, state.selectedRetailer, state.selectedPlacement,
     state.retailerName, state.placementName >>

\* C30: setAnalysis replaces analysis and nulls error, leaving isLoading and
\* the upload context; setLoading and setError change only their own field;
\* clearAnalysis resets every field but isLoading to its initial value.
C30_StoreFrames ==
  [][ storeCall' # storeCall =>
        /\ storeCall'.op = "setAnalysis" =>
             /\ store'.analysis = storeCall'.arg
             /\ store'.error = Null
             /\ store'.isLoading = store.isLoading
             /\ uploadContext(store') = uploadContext(store)
        /\ storeCall'.op = "setLoading" =>
             /\ store'.isLoading = storeCall'.arg.some
             /\ store' = [store EXCEPT !.isLoading = store'.isLoading]
        /\ storeCall'.op = "setError" =>
             /\ store'.error = storeCall'.arg
             /\ store' = [store EXCEPT !.error = store'.error]
        /\ storeCall'.op = "clearAnalysis" =>
             /\ store'.analysis = Null
             /\ store'.error = Null
             /\ uploadContext(store') = uploadContext(InitialStore)
             /\ store'.isLoading = store.isLoading
             /\ store' = [InitialStore EXCEPT !.isLoading = store.isLoading]
    ]_vars

\* clearAnalysis ran on a loading store
C30_Witness ==
  /\ storeCall # Unset
  /\ storeCall.op = "clearAnalysis"
  /\ store.isLoading
  /\ store = [InitialStore EXCEPT !.isLoading = TRUE]

\* C25 (as claimed): once the upload form was submitted with a file, a
\* retailer and a placement, the simulation page is shown with the analysis
\* of that file in the store.
C25_SubmitStoresAnalysis ==
  (route = "/simulation" /\ sessionItem # Null) => store.analysis # Null

\* what a call settles with when it runs alone on the file, the decoding
\* outcome and the remote responses that call c met
alone(c) ==
  LET profile == IF c.decode = "loaded" THEN extractProfile(c.data) ELSE DefaultProfile
      local == [state |-> "resolved", value |-> generateMockAnalysis(profile)]
  IN IF c.decode = "none" THEN [state |-> "rejected", value |-> Error("reader.error")]
     ELSE IF ~OPENAI_API_KEY THEN local
     ELSE IF \/ c.exchange.compliance \in FailureKinds
             \/ c.analysisJson = Null
             \/ c.exchange.heatmap \in {"rejected", "unparsable"}
             \/ c.exchange.placement \in {"rejected", "unparsable"}
            THEN local
     ELSE LET done == compileResult(c.analysisJson, c.heatmapData, c.placementData)
          IN IF done.kind = "throw" THEN local
             ELSE [state |-> "resolved", value |-> done.value]

objectsOf(c) ==
  IF c.objects = Unset THEN { }
  ELSE { c.objects.result, c.objects.heatmapData, c.objects.placementSimulations }

====
